---- MODULE Spec2Model ----
(***************************************************************************)
(* Model of the streaming frame decoder of opendaq/daq.py (DAQ.get_stream) *)
(* and of the checksum helper it calls.  One get_stream call is a sequence *)
(* of steps: the first read, one step per iteration of the header loop,    *)
(* one per iteration of the payload loop, one per iteration of the sample  *)
(* loop, and the final step.  self.ser.read(n) is an input of each step:   *)
(* it returns up to n bytes, fewer when the 0.1 s timeout expires.         *)
(***************************************************************************)
EXTENDS Integers, Sequences, FiniteSets, TLC

VARIABLES
    pc,        \* "ready" | "header" | "payload" | "decode" | "returned" | "raised"
    data,      \* the caller's list `data`
    channel,   \* the caller's list `channel`
    header,    \* get_stream's local list `header`
    i,         \* the loop variable of `for i in range(0, dataLength, 2)`
    ret,       \* the value returned by the last call (when pc = "returned")
    exc,       \* the exception raised by the last call (when pc = "raised")
    rx,        \* history: the raw bytes self.ser.read has returned to this call
    npay,      \* history: iterations of the payload loop run by this call
    d0,        \* history: len(data) when this call began
    c0,        \* history: len(channel) when this call began
    ncalls,    \* history: calls of get_stream begun
    prev_wf,   \* history: the call before this one read one whole escape-free
               \* frame and returned 1
    nframes,   \* history: calls that have returned 1 or 3
    masking,   \* the interpreter masks struct integer overflow (Python < 2.7)
    crc_arg,   \* the byte string handed to crc
    crc_pc,    \* "ready" | "done"
    crc_sum,   \* the outcome of crc(crc_arg)
    crc_res,   \* the outcome of check_crc(crc(crc_arg) + crc_arg)
    s_pc,      \* send_command: "ready" | "written" | "read" | "done"
    s_cmd,     \* send_command's argument cmd
    s_fmt,     \* send_command's argument ret_fmt, one format character per element
    s_ret,     \* send_command's local ret, the bytes self.ser.read returned
    s_out,     \* the outcome of send_command (when s_pc = "done")
    s_log,     \* history: the calls send_command has made on self.ser
    f_pc,      \* flush_stream: "ready" | "loop" | "header" | "payload" |
               \*   "decode" | "tail" | "returned" | "raised"
    f_data,    \* flush_stream's argument data, the caller's list
    f_channel, \* flush_stream's argument channel, the caller's list
    self_header, \* self.header
    self_data, \* self.data
    cmd,       \* flush_stream's local cmd: <<>> while unbound, else <<cmd[0]>>
    f_i,       \* flush_stream's loop variable i
    f_exc,     \* the exception flush_stream has raised, or "none"
    f_d0,      \* history: len(data) when flush_stream was called
    f_c0,      \* history: len(channel) when flush_stream was called
    f_fd,      \* history: len(data) when the current frame's delimiter was read
    f_fc,      \* history: len(channel) at that moment
    f_frames   \* history: the number of delimiters flush_stream has read

\* the variables of a get_stream run
vars == <<pc, data, channel, header, i, ret, exc, rx, npay, d0, c0, ncalls,
          prev_wf, nframes>>

\* the variables of the checksum functions
crcvars == <<masking, crc_arg, crc_pc, crc_sum, crc_res>>

\* the variables of a send_command call
cmdvars == <<s_pc, s_cmd, s_fmt, s_ret, s_out, s_log>>

\* the variables of a flush_stream run
flushvars == <<f_pc, f_data, f_channel, self_header, self_data, cmd, f_i,
               f_exc, f_d0, f_c0, f_fd, f_fc, f_frames>>

allvars == <<vars, crcvars, cmdvars, flushvars>>

---------------------------------------------------------------------------
(* Bounds *)

\* get_stream calls made by the polling loop.
MaxCalls == 2

\* length of the short byte strings handed to crc
MaxCrcLen == 4

---------------------------------------------------------------------------
(* Program constants *)

Delim    == 126   \* 0x7E, the start delimiter
Escape   == 125   \* 0x7D, the escape marker
StopMark == 80    \* header[2] of a stop frame
EscBit   == 32    \* 0x20, or-ed into the byte after an escape marker
HeaderLen == 8
UShortMax == 65535   \* the largest value struct.pack('>H', ...) accepts

---------------------------------------------------------------------------
(* The bytes the device is let to send at each read site. *)

\* first byte of a call: the delimiter or a stray byte
FirstFeed == {Delim, 0, 128, 255}

\* raw byte sent while header[n] (0-based) is being collected
HeaderFeed(n) ==
    CASE n = 0 -> {0}
      [] n = 1 -> {10, Escape}
      [] n = 2 -> {0, StopMark}
      [] n = 3 -> {3, 4, 5, 6, 8}
      [] n = 4 -> {1, 2}
      [] OTHER -> {0}

\* raw byte sent right after an escape marker: 0x7D ^ 0x20 and 0x7E ^ 0x20
EscFeed == {93, 94}

\* raw byte sent as the k-th payload byte this call reads (k counts from 0)
PayloadFeed(k) == IF k < 2 THEN {1, 2, 255, Escape} ELSE {2, 255}

\* the two raw bytes that follow the stop marker
StopFeed == {<<0, 1>>, <<0, 2>>}

\* self.ser.read(1): one byte of feed, or nothing on timeout
Read1(feed) == {<<>>} \cup {<<b>> : b \in feed}

\* self.ser.read(2): two bytes, or fewer on timeout
Read2(feed) == {<<>>} \cup {<<p[1]>> : p \in feed} \cup feed

---------------------------------------------------------------------------
(* Pure helpers *)

\* struct.unpack('>b', ...): a byte read as a signed 8-bit integer
SByte(b) == IF b >= 128 THEN b - 256 ELSE b

\* Python's | on integers (two's complement, unbounded)
RECURSIVE BitOr(_, _)
BitOr(x, y) ==
    IF x = 0 THEN y
    ELSE IF y = 0 THEN x
    ELSE IF x = -1 \/ y = -1 THEN -1
    ELSE (IF x % 2 = 1 \/ y % 2 = 1 THEN 1 ELSE 0)
         + 2 * BitOr(x \div 2, y \div 2)

\* A plausible slip: the byte after the escape marker is kept as read.
Unescape_as_read(b) == b

\* the byte recovered after an escape marker: char[0] | 0x20
Unescape(b) == BitOr(b, EscBit)

\* s[lo] + ... + s[hi], added up by halves to keep the evaluation shallow
RECURSIVE sum_range(_, _, _)
sum_range(s, lo, hi) ==
    IF lo > hi THEN 0
    ELSE IF lo = hi THEN s[lo]
    ELSE LET mid == (lo + hi) \div 2
         IN  sum_range(s, lo, mid) + sum_range(s, mid + 1, hi)

\* Python's sum() of a list, and the loop `for c in data: s += ord(c)`
sum(s) == sum_range(s, 1, Len(s))

\* check_stream_crc(head, data); head is a full header (1-based here)
check_stream_crc(head, d) ==
    LET csum == head[1] * 256 + head[2]
    IN  csum = sum(SubSeq(head, 3, Len(head)) \o d)

\* the outcome of a call: the value returned, or the exception raised
Value(v) == [exc |-> "none", val |-> v]
Raised(e) == [exc |-> e, val |-> <<>>]

\* struct.pack('>H', s) for s >= 0: Python 2.7 raises struct.error when s
\* exceeds 65535; earlier interpreters warn and mask the value to 16 bits
pack_H(s) ==
    IF s > UShortMax /\ ~masking
    THEN Raised("struct.error")
    ELSE Value(<<(s % (UShortMax + 1)) \div 256, s % 256>>)

\* crc(data)
crc(d) == pack_H(sum(d))

\* check_crc(data)
check_crc(d) ==
    LET csum    == SubSeq(d, 1, IF Len(d) < 2 THEN Len(d) ELSE 2)
        payload == SubSeq(d, 3, Len(d))
        c       == crc(payload)
    IN  IF c.exc # "none" THEN c
        ELSE IF csum # c.val THEN Raised("CRCError")
        ELSE Value(payload)

\* one sample: (hi << 8) | lo, reinterpreted when >= 32768
Sample(hi, lo) ==
    LET value == BitOr(hi * 256, lo)
    IN  IF value >= 32768 THEN value - 65536 ELSE value

\* A plausible slip: the length byte is taken as the payload length.
dataLength_whole == header[4]

\* dataLength = header[3] - 4
dataLength == header[4] - 4

---------------------------------------------------------------------------
(* Frames as the device sends them (the wire format of the stream). *)

\* bytes s[2..] hold neither an escape marker nor a delimiter
EscapeFree(s) == \A k \in 2..Len(s) : s[k] \notin {Escape, Delim}

\* s begins with the delimiter and an escape-free 8-byte header that is no
\* stop frame and announces an even payload length L - 4 >= 0
FrameHead(s) ==
    /\ Len(s) >= 1 + HeaderLen
    /\ s[1] = Delim
    /\ s[4] # StopMark
    /\ s[5] >= 4
    /\ (s[5] - 4) % 2 = 0

\* s is exactly one well-formed escape-free frame
WellFormedFrame(s) ==
    /\ FrameHead(s)
    /\ Len(s) = 1 + HeaderLen + (s[5] - 4)
    /\ EscapeFree(s)

\* the payload bytes of a frame s
FramePayload(s) == SubSeq(s, 2 + HeaderLen, Len(s))

\* the signed 16-bit value of the big-endian byte pair (hi, lo)
Int16(hi, lo) ==
    LET v == hi * 256 + lo
    IN  IF v >= 32768 THEN v - 65536 ELSE v

\* the samples a payload p carries
FrameSamples(p) == [k \in 1..(Len(p) \div 2) |-> Int16(p[2 * k - 1], p[2 * k])]

---------------------------------------------------------------------------
\* no use of the checksum functions is under way
CrcIdle ==
    /\ crc_arg = <<>>
    /\ crc_pc = "ready"
    /\ crc_sum = Value(<<>>)
    /\ crc_res = Value(<<>>)

StreamInit ==
    /\ pc = "ready"
    /\ data = <<>>
    /\ channel = <<>>
    /\ header = <<>>
    /\ i = 0
    /\ ret = 0
    /\ exc = "none"
    /\ rx = <<>>
    /\ npay = 0
    /\ d0 = 0
    /\ c0 = 0
    /\ ncalls = 0
    /\ prev_wf = FALSE
    /\ nframes = 0

\* no send_command call is under way
CmdIdle ==
    /\ s_pc = "ready"
    /\ s_cmd = <<>>
    /\ s_fmt = <<>>
    /\ s_ret = <<>>
    /\ s_out = Value(<<>>)
    /\ s_log = <<>>

\* no flush_stream run is under way
FlushIdle ==
    /\ f_pc = "ready"
    /\ f_data = <<>>
    /\ f_channel = <<>>
    /\ self_header = <<>>
    /\ self_data = <<>>
    /\ cmd = <<>>
    /\ f_i = 0
    /\ f_exc = "none"
    /\ f_d0 = 0
    /\ f_c0 = 0
    /\ f_fd = 0
    /\ f_fc = 0
    /\ f_frames = 0

Init ==
    /\ StreamInit
    /\ masking = FALSE
    /\ CrcIdle
    /\ CmdIdle
    /\ FlushIdle

Idle == pc \in {"ready", "returned", "raised"}

\* the call ends by returning r
Return(r) ==
    /\ pc' = "returned"
    /\ ret' = r
    /\ exc' = "none"
    /\ nframes' = IF r \in {1, 3} THEN nframes + 1 ELSE nframes

\* the call ends by raising e
Raise(e) ==
    /\ pc' = "raised"
    /\ exc' = e
    /\ UNCHANGED <<ret, nframes>>

\* the call goes on at label l
Goto(l) ==
    /\ pc' = l
    /\ UNCHANGED <<ret, exc, nframes>>

\* A plausible slip: an empty read is reported as a stray byte.
first_byte_idle_as_stray(r) ==
    IF r = <<>>
    THEN /\ data' = Append(data, 0)
         /\ Return(2)
    ELSE IF SByte(r[1]) # Delim
    THEN /\ data' = Append(data, SByte(r[1]))
         /\ Return(2)
    ELSE /\ UNCHANGED data
         /\ Goto("header")

\* what get_stream does with the result r of its first read
first_byte(r) ==
    IF r = <<>>
    THEN /\ UNCHANGED data
         /\ Return(0)
    ELSE IF SByte(r[1]) # Delim
    THEN /\ data' = Append(data, SByte(r[1]))
         /\ Return(2)
    ELSE /\ UNCHANGED data
         /\ Goto("header")

\* get_stream, entry and first read
get_stream_first(r) ==
    /\ Idle
    /\ ncalls < MaxCalls
    /\ ncalls' = ncalls + 1
    /\ prev_wf' = (pc = "returned" /\ ret = 1 /\ WellFormedFrame(rx))
    /\ header' = <<>>
    /\ i' = 0
    /\ npay' = 0
    /\ d0' = Len(data)
    /\ c0' = Len(channel)
    /\ rx' = r
    /\ UNCHANGED channel
    /\ first_byte(r)

\* one iteration of `while len(header)<8`, the stop check included
get_stream_header(r1, r2, r3) ==
    /\ pc = "header"
    /\ Len(header) < HeaderLen
    /\ UNCHANGED <<data, i, npay, d0, c0, ncalls, prev_wf>>
    /\ IF r1 = <<>>
       THEN /\ rx' = rx
            /\ Raise("struct.error")
            /\ UNCHANGED <<header, channel>>
       ELSE IF r1[1] = Escape /\ r2 = <<>>
       THEN /\ rx' = rx \o r1
            /\ Raise("struct.error")
            /\ UNCHANGED <<header, channel>>
       ELSE
         LET b  == IF r1[1] = Escape THEN Unescape(r2[1]) ELSE r1[1]
             rd == IF r1[1] = Escape THEN r1 \o r2 ELSE r1
             h  == Append(header, b)
         IN  /\ header' = h
             /\ IF Len(h) = 3 /\ h[3] = StopMark
                THEN /\ rx' = rx \o rd \o r3
                     /\ IF Len(r3) # 2
                        THEN /\ Raise("struct.error")
                             /\ UNCHANGED channel
                        ELSE /\ channel' = Append(channel, r3[2] - 1)
                             /\ Return(3)
                ELSE /\ rx' = rx \o rd
                     /\ UNCHANGED channel
                     /\ Goto(IF Len(h) < HeaderLen THEN "header" ELSE "payload")

\* one iteration of `while len(data)<dataLength`, or the loop's exit
get_stream_payload(r1, r2) ==
    /\ pc = "payload"
    /\ UNCHANGED <<header, channel, d0, c0, ncalls, prev_wf>>
    /\ IF ~(Len(data) < dataLength)
       THEN /\ Goto("decode")
            /\ i' = 0
            /\ UNCHANGED <<data, rx, npay>>
       ELSE IF r1 = <<>>
       THEN /\ Raise("struct.error")
            /\ UNCHANGED <<data, rx, npay, i>>
       ELSE IF r1[1] = Escape /\ r2 = <<>>
       THEN /\ rx' = rx \o r1
            /\ Raise("struct.error")
            /\ UNCHANGED <<data, npay, i>>
       ELSE
         LET b  == IF r1[1] = Escape THEN Unescape(r2[1]) ELSE r1[1]
             rd == IF r1[1] = Escape THEN r1 \o r2 ELSE r1
         IN  /\ data' = Append(data, b)
             /\ rx' = rx \o rd
             /\ npay' = npay + 1
             /\ Goto("payload")
             /\ UNCHANGED i

\* A plausible slip (it is what flush_stream does): the channel id is appended
\* once per sample, inside the sample loop.
get_stream_decode_channel_per_sample ==
    /\ pc = "decode"
    /\ i < dataLength
    /\ UNCHANGED <<header, rx, npay, d0, c0, ncalls, prev_wf>>
    /\ IF i + 2 > Len(data)
       THEN /\ Raise("IndexError")
            /\ UNCHANGED <<data, channel, i>>
       ELSE /\ data' = Append(data, Sample(data[i + 1], data[i + 2]))
            /\ channel' = Append(channel, header[5] - 1)
            /\ i' = i + 2
            /\ Goto("decode")

\* one iteration of `for i in range(0, dataLength, 2)`
get_stream_decode ==
    /\ pc = "decode"
    /\ i < dataLength
    /\ UNCHANGED <<header, channel, rx, npay, d0, c0, ncalls, prev_wf>>
    /\ IF i + 2 > Len(data)
       THEN \* data[i+1]: list index out of range
            /\ Raise("IndexError")
            /\ UNCHANGED <<data, i>>
       ELSE /\ data' = Append(data, Sample(data[i + 1], data[i + 2]))
            /\ i' = i + 2
            /\ Goto("decode")

\* A plausible slip (it is what flush_stream does): a frame whose checksum
\* does not match is dropped.
get_stream_finish_strict ==
    /\ pc = "decode"
    /\ ~(i < dataLength)
    /\ UNCHANGED <<data, header, i, rx, npay, d0, c0, ncalls, prev_wf>>
    /\ IF check_stream_crc(header, data)
       THEN /\ channel' = Append(channel, header[5] - 1)
            /\ Return(1)
       ELSE /\ UNCHANGED channel
            /\ Return(2)

\* after the sample loop: the checksum is evaluated, the channel id appended
get_stream_finish ==
    /\ pc = "decode"
    /\ ~(i < dataLength)
    /\ check_stream_crc(header, data) \in BOOLEAN
    /\ channel' = Append(channel, header[5] - 1)
    /\ Return(1)
    /\ UNCHANGED <<data, header, i, rx, npay, d0, c0, ncalls, prev_wf>>

\* what a get_stream run leaves alone
StreamFrame == UNCHANGED <<crcvars, cmdvars, flushvars>>

Next ==
    \/ StreamFrame /\ \E r \in Read1(FirstFeed) : get_stream_first(r)
    \/ StreamFrame /\ \E r1 \in Read1(HeaderFeed(Len(header))),
                         r2 \in Read1(EscFeed), r3 \in Read2(StopFeed) :
                            get_stream_header(r1, r2, r3)
    \/ StreamFrame /\ \E r1 \in Read1(PayloadFeed(npay)), r2 \in Read1(EscFeed) :
                            get_stream_payload(r1, r2)
    \/ StreamFrame /\ get_stream_decode
    \/ StreamFrame /\ get_stream_finish

Spec == Init /\ [][Next]_allvars

---------------------------------------------------------------------------
(* The checksum functions, applied to byte strings. *)

CrcBytes == {0, 1, 255}

\* n bytes b
Rep(b, n) == [k \in 1..n |-> b]

\* short strings, and strings of 0xFF whose byte sum is 65280, 65535, 65790
CrcInputs ==
    UNION {[1..n -> CrcBytes] : n \in 0..MaxCrcLen}
        \cup {Rep(255, n) : n \in 256..258}

InitCrc ==
    /\ StreamInit
    /\ masking \in BOOLEAN
    /\ crc_arg \in CrcInputs
    /\ crc_pc = "ready"
    /\ crc_sum = Value(<<>>)
    /\ crc_res = Value(<<>>)
    /\ CmdIdle
    /\ FlushIdle

\* crc(p), then check_crc(crc(p) + p)
crc_roundtrip ==
    /\ crc_pc = "ready"
    /\ crc_pc' = "done"
    /\ crc_sum' = crc(crc_arg)
    /\ crc_res' = IF crc(crc_arg).exc # "none"
                  THEN crc(crc_arg)
                  ELSE check_crc(crc(crc_arg).val \o crc_arg)
    /\ UNCHANGED <<masking, crc_arg, vars, cmdvars, flushvars>>

NextCrc == crc_roundtrip

SpecCrc == InitCrc /\ [][NextCrc]_allvars

---------------------------------------------------------------------------
(* DAQ.send_command *)

\* struct.calcsize of one format character
size_of(c) == IF c \in {"b", "B"} THEN 1 ELSE 2

\* struct.calcsize('>' + fmt)
RECURSIVE calcsize(_)
calcsize(fmt) == IF fmt = <<>> THEN 0 ELSE size_of(fmt[1]) + calcsize(Tail(fmt))

\* struct.unpack of one big-endian item: b, B, h or H
unpack_item(c, b) ==
    CASE c = "b" -> SByte(b[1])
      [] c = "B" -> b[1]
      [] c = "H" -> b[1] * 256 + b[2]
      [] c = "h" -> IF b[1] >= 128 THEN b[1] * 256 + b[2] - 65536
                    ELSE b[1] * 256 + b[2]

\* struct.unpack('>' + fmt, b), for b of length calcsize(fmt)
RECURSIVE unpack(_, _)
unpack(fmt, b) ==
    IF fmt = <<>> THEN <<>>
    ELSE <<unpack_item(fmt[1], SubSeq(b, 1, size_of(fmt[1])))>>
         \o unpack(Tail(fmt), SubSeq(b, size_of(fmt[1]) + 1, Len(b)))

\* fmt = '>bb' + ret_fmt
full_fmt(ret_fmt) == <<"b", "b">> \o ret_fmt

\* ret_len = 2 + struct.calcsize(fmt)
ret_len(ret_fmt) == 2 + calcsize(full_fmt(ret_fmt))

\* A plausible slip: the declared length is checked before the checksum.
send_result_length_first(ret_fmt, r) ==
    IF Len(r) # ret_len(ret_fmt) THEN Raised("LengthError")
    ELSE LET d == unpack(full_fmt(ret_fmt), SubSeq(r, 3, Len(r)))
         IN  IF d[2] # ret_len(ret_fmt) - 4 THEN Raised("LengthError")
             ELSE IF check_crc(r).exc # "none" THEN check_crc(r)
             ELSE Value(SubSeq(d, 3, Len(d)))

\* A plausible slip: only the command echo is stripped, and the declared
\* length is compared with ret_len - 2.
send_result_strip_one(ret_fmt, r) ==
    IF Len(r) # ret_len(ret_fmt) THEN Raised("LengthError")
    ELSE IF check_crc(r).exc # "none" THEN check_crc(r)
    ELSE LET d == unpack(full_fmt(ret_fmt), check_crc(r).val)
         IN  IF d[2] # ret_len(ret_fmt) - 4 THEN Raised("LengthError")
             ELSE Value(SubSeq(d, 2, Len(d)))

\* what send_command makes of the bytes r it has read
send_result(ret_fmt, r) ==
    IF Len(r) # ret_len(ret_fmt) THEN Raised("LengthError")
    ELSE IF check_crc(r).exc # "none" THEN check_crc(r)
    ELSE LET d == unpack(full_fmt(ret_fmt), check_crc(r).val)
         IN  IF d[2] # ret_len(ret_fmt) - 4 THEN Raised("LengthError")
             ELSE Value(SubSeq(d, 3, Len(d)))

\* one call on self.ser
SerCall(op, bytes, n) == [op |-> op, bytes |-> bytes, n |-> n]

\* packet = crc(cmd) + cmd; self.ser.write(packet)
send_command_write ==
    /\ s_pc = "ready"
    /\ s_cmd # <<>>
    /\ IF crc(s_cmd).exc # "none"
       THEN /\ s_pc' = "done"
            /\ s_out' = crc(s_cmd)
            /\ UNCHANGED s_log
       ELSE /\ s_pc' = "written"
            /\ s_log' = Append(s_log, SerCall("write", crc(s_cmd).val \o s_cmd, 0))
            /\ UNCHANGED s_out
    /\ UNCHANGED <<s_cmd, s_fmt, s_ret, vars, crcvars, flushvars>>

\* ret = self.ser.read(ret_len); r is what arrives before the timeout
send_command_read(r) ==
    /\ s_pc = "written"
    /\ Len(r) <= ret_len(s_fmt)
    /\ s_pc' = "read"
    /\ s_ret' = r
    /\ s_log' = Append(s_log, SerCall("read", <<>>, ret_len(s_fmt)))
    /\ UNCHANGED <<s_cmd, s_fmt, s_out, vars, crcvars, flushvars>>

\* the checks of the response, and the return
send_command_check ==
    /\ s_pc = "read"
    /\ s_pc' = "done"
    /\ s_out' = send_result(s_fmt, s_ret)
    /\ UNCHANGED <<s_cmd, s_fmt, s_ret, s_log, vars, crcvars, flushvars>>

(* The commands sent and the responses the device is let to give. *)

\* read_adc, set_led, get_counter, set_pio, stop_capture, and load_signal
\* with 129 samples of value -1
Commands ==
    { [cmd |-> <<1, 0>>, fmt |-> <<"h">>],
      [cmd |-> <<18, 1, 2>>, fmt |-> <<"B">>],
      [cmd |-> <<42, 1, 0>>, fmt |-> <<"H">>],
      [cmd |-> <<3, 2, 1, 1>>, fmt |-> <<"B", "B">>],
      [cmd |-> <<21, 0>>, fmt |-> <<>>],
      [cmd |-> <<23, 129, 0, 0>> \o Rep(255, 258), fmt |-> <<"B", "h">>] }

FieldBytes == {0, 1, 255}

\* the declared lengths a response of n field bytes may carry
DeclLens(n) == {n, n + 1, 255}

\* the two checksum bytes of body, or two bytes that do not match it
Checksums(body) ==
    {<<sum(body) \div 256, sum(body) % 256>>,
     <<sum(body) \div 256, (sum(body) + 1) % 256>>}

\* whole responses to a command that echoes e and returns fields of fmt
FullResponses(e, fmt) ==
    UNION { { c \o body : c \in Checksums(body) } :
            body \in { <<e, dl>> \o f :
                         dl \in DeclLens(calcsize(fmt)),
                         f \in [1..calcsize(fmt) -> FieldBytes] } }

\* any of them cut short by the read timeout
Responses(e, fmt) ==
    { SubSeq(r, 1, k) : r \in FullResponses(e, fmt), k \in 0..ret_len(fmt) }

InitCmd ==
    /\ StreamInit
    /\ masking \in BOOLEAN
    /\ CrcIdle
    /\ \E c \in Commands : s_cmd = c.cmd /\ s_fmt = c.fmt
    /\ s_pc = "ready"
    /\ s_ret = <<>>
    /\ s_out = Value(<<>>)
    /\ s_log = <<>>
    /\ FlushIdle

NextCmd ==
    \/ send_command_write
    \/ \E r \in Responses(s_cmd[1], s_fmt) : send_command_read(r)
    \/ send_command_check

SpecCmd == InitCmd /\ [][NextCmd]_allvars

---------------------------------------------------------------------------
(* DAQ.flush_stream *)

MaxFlushFrames == 2

\* self.dataLength = length - 4
self_dataLength == self_header[4] - 4

\* len(str(n)) for a signed byte n
StrLen(n) ==
    LET a == IF n < 0 THEN -n ELSE n
        d == IF a < 10 THEN 1 ELSE IF a < 100 THEN 2 ELSE 3
    IN  IF n < 0 THEN d + 1 ELSE d

FlushGoto(l) == f_pc' = l /\ f_exc' = "none"
FlushRaise(e) == f_pc' = "raised" /\ f_exc' = e

\* the call: data and channel are the caller's lists
flush_stream_call(d, c) ==
    /\ f_pc = "ready"
    /\ f_data' = d
    /\ f_channel' = c
    /\ f_d0' = Len(d)
    /\ f_c0' = Len(c)
    /\ f_fd' = Len(d)
    /\ f_fc' = Len(c)
    /\ FlushGoto("loop")
    /\ UNCHANGED <<self_header, self_data, cmd, f_i, f_frames, vars, crcvars,
                   cmdvars>>

\* the head of `while 1`: ret = self.ser.read(1) and the test of cmd[0]
flush_stream_first(r) ==
    /\ f_pc = "loop"
    /\ UNCHANGED <<f_data, f_channel, f_i, f_d0, f_c0, vars, crcvars, cmdvars>>
    /\ IF r = <<>>
       THEN /\ FlushGoto("tail")
            /\ UNCHANGED <<self_header, self_data, cmd, f_fd, f_fc, f_frames>>
       ELSE /\ cmd' = <<SByte(r[1])>>
            /\ IF SByte(r[1]) = Delim
               THEN /\ self_header' = <<>>
                    /\ self_data' = <<>>
                    /\ f_fd' = Len(f_data)
                    /\ f_fc' = Len(f_channel)
                    /\ f_frames' = f_frames + 1
                    /\ FlushGoto("header")
               ELSE /\ FlushGoto("tail")
                    /\ UNCHANGED <<self_header, self_data, f_fd, f_fc, f_frames>>

\* one iteration of `while len(self.header)<8`: the byte after an escape
\* marker is read and dropped, the marker itself is stored
flush_stream_header(r1) ==
    /\ f_pc = "header"
    /\ Len(self_header) < HeaderLen
    /\ UNCHANGED <<f_data, f_channel, self_data, cmd, f_i, f_d0, f_c0, f_fd,
                   f_fc, f_frames, vars, crcvars, cmdvars>>
    /\ IF r1 = <<>>
       THEN /\ FlushRaise("struct.error")
            /\ UNCHANGED self_header
       ELSE /\ self_header' = Append(self_header, r1[1])
            /\ FlushGoto(IF Len(self_header) + 1 < HeaderLen
                         THEN "header" ELSE "payload")

\* one iteration of `while len(self.data)<self.dataLength`, or the loop's
\* exit and the test of check_stream_crc
flush_stream_payload(r1, r2) ==
    /\ f_pc = "payload"
    /\ UNCHANGED <<f_data, f_channel, self_header, cmd, f_d0, f_c0, f_fd, f_fc,
                   f_frames, vars, crcvars, cmdvars>>
    /\ IF ~(Len(self_data) < self_dataLength)
       THEN /\ FlushGoto(IF check_stream_crc(self_header, self_data)
                         THEN "decode" ELSE "loop")
            /\ f_i' = 0
            /\ UNCHANGED self_data
       ELSE IF r1 = <<>> \/ (r1[1] = Escape /\ r2 = <<>>)
       THEN /\ FlushRaise("struct.error")
            /\ UNCHANGED <<self_data, f_i>>
       ELSE /\ self_data' = Append(self_data,
                               IF r1[1] = Escape THEN Unescape(r2[1]) ELSE r1[1])
            /\ FlushGoto("payload")
            /\ UNCHANGED f_i

\* A plausible slip (it is what get_stream does): the channel id is appended
\* once per frame, after the sample loop.
flush_stream_decode_channel_per_frame ==
    /\ f_pc = "decode"
    /\ UNCHANGED <<self_header, self_data, cmd, f_d0, f_c0, f_fd, f_fc,
                   f_frames, vars, crcvars, cmdvars>>
    /\ IF ~(f_i < self_dataLength)
       THEN /\ FlushGoto("loop")
            /\ f_channel' = Append(f_channel, self_header[5] - 1)
            /\ UNCHANGED <<f_data, f_i>>
       ELSE IF f_i + 2 > Len(self_data)
       THEN /\ FlushRaise("IndexError")
            /\ UNCHANGED <<f_data, f_channel, f_i>>
       ELSE /\ f_data' = Append(f_data,
                                Sample(self_data[f_i + 1], self_data[f_i + 2]))
            /\ UNCHANGED f_channel
            /\ f_i' = f_i + 2
            /\ FlushGoto("decode")

\* one iteration of `for i in range(0, self.dataLength, 2)`, or its end
flush_stream_decode ==
    /\ f_pc = "decode"
    /\ UNCHANGED <<self_header, self_data, cmd, f_d0, f_c0, f_fd, f_fc,
                   f_frames, vars, crcvars, cmdvars>>
    /\ IF ~(f_i < self_dataLength)
       THEN /\ FlushGoto("loop")
            /\ UNCHANGED <<f_data, f_channel, f_i>>
       ELSE IF f_i + 2 > Len(self_data)
       THEN \* self.data[i+1]: list index out of range
            /\ FlushRaise("IndexError")
            /\ UNCHANGED <<f_data, f_channel, f_i>>
       ELSE /\ f_data' = Append(f_data,
                                Sample(self_data[f_i + 1], self_data[f_i + 2]))
            /\ f_channel' = Append(f_channel, self_header[5] - 1)
            /\ f_i' = f_i + 2
            /\ FlushGoto("decode")

\* after the loop: ret = self.ser.read(3); ret = str(cmd[0])+ret
flush_stream_tail(r) ==
    /\ f_pc = "tail"
    /\ UNCHANGED <<f_data, f_channel, self_header, self_data, cmd, f_i, f_d0,
                   f_c0, f_fd, f_fc, f_frames, vars, crcvars, cmdvars>>
    /\ IF cmd = <<>>
       THEN FlushRaise("UnboundLocalError")
       ELSE IF StrLen(cmd[1]) + Len(r) # 4
       THEN FlushRaise("LengthError")
       ELSE f_pc' = "returned" /\ f_exc' = "none"

(* The bytes the serial port is let to deliver to flush_stream. *)

FlushFirstFeed == IF f_frames < MaxFlushFrames THEN {Delim, 0} ELSE {0}

\* header bytes by position: the checksum's low byte, the length byte and
\* the channel number vary
FlushHeaderFeed(n) ==
    CASE n = 1 -> {8, 10, Escape}
      [] n = 3 -> {5, 6, 8}
      [] n = 4 -> {1, 2}
      [] OTHER -> {0}

FlushPayloadFeed(k) == IF k < 2 THEN {0, 1, Escape} ELSE {0, 1}

\* what self.ser.read(3) returns
TailFeed == {<<>>, <<0>>, <<0, 0>>, <<0, 0, 0>>}

InitFlush == Init

NextFlush ==
    \/ \E d \in {<<>>, <<7>>} : flush_stream_call(d, <<>>)
    \/ \E r \in Read1(FlushFirstFeed) : flush_stream_first(r)
    \/ \E r1 \in Read1(FlushHeaderFeed(Len(self_header))) : flush_stream_header(r1)
    \/ \E r1 \in Read1(FlushPayloadFeed(Len(self_data))), r2 \in Read1(EscFeed) :
          flush_stream_payload(r1, r2)
    \/ flush_stream_decode
    \/ \E r \in TailFeed : flush_stream_tail(r)

SpecFlush == InitFlush /\ [][NextFlush]_allvars

---------------------------------------------------------------------------
(* What the current (or last) call has added to the caller's lists. *)

Ended == pc \in {"returned", "raised"}
Returned(r) == pc = "returned" /\ ret = r
NewData == SubSeq(data, d0 + 1, Len(data))
NewChannel == SubSeq(channel, c0 + 1, Len(channel))

\* the unescaped payload bytes this call has collected
Payload == SubSeq(data, d0 + 1, d0 + npay)

\* the samples this call's sample loop has appended
NewSamples == SubSeq(data, d0 + npay + 1, Len(data))

\* the index in s of the last raw byte of the n-th header byte, from pos
RECURSIVE RawEnd(_, _, _)
RawEnd(s, pos, n) ==
    IF n = 0 THEN pos
    ELSE RawEnd(s, IF s[pos + 1] = Escape THEN pos + 2 ELSE pos + 1, n - 1)

\* the call is a stop frame's: its third header byte is the stop marker
StopSeen == Len(header) >= 3 /\ header[3] = StopMark

---------------------------------------------------------------------------
(* C1: a call that starts with empty data and channel lists and reads one  *)
(* whole well-formed escape-free frame returns 1, leaves the channel list  *)
(* holding only header[4]-1 and the data list holding only the frame's     *)
(* decoded samples.                                                        *)
C1_FrameDecodedExactly ==
    (Ended /\ d0 = 0 /\ c0 = 0 /\ WellFormedFrame(rx))
        => /\ Returned(1)
           /\ channel = <<rx[6] - 1>>
           /\ data = FrameSamples(FramePayload(rx))

(* C2: once a call has collected its 8 header bytes and left the payload   *)
(* loop, it has read exactly header[3]-4 payload bytes, whatever the data  *)
(* list held when the call began.                                          *)
C2_LengthDiscipline ==
    (Len(header) = HeaderLen /\ dataLength >= 0
       /\ (pc = "decode" \/ Returned(1)))
        => npay = dataLength

(* C3: when the first call has decoded a well-formed frame and the second  *)
(* call, on the same lists, is fed a second well-formed frame and returns, *)
(* it returns 1 having read exactly that frame, and the samples and the    *)
(* channel id it appended are that frame's.                                *)
C3_NoLeakBetweenFrames ==
    (ncalls = 2 /\ prev_wf /\ pc = "returned" /\ FrameHead(rx) /\ EscapeFree(rx))
        => /\ ret = 1
           /\ WellFormedFrame(rx)
           /\ NewSamples = FrameSamples(FramePayload(rx))
           /\ NewChannel = <<rx[6] - 1>>

(* C4: while a call has not yet collected 8 header bytes and header[3]-4   *)
(* payload bytes (and the frame is no stop frame), the caller's data and   *)
(* channel lists are as they were when the call began.                     *)
C4_NoPartialFrameExposed ==
    (pc # "ready" /\ Len(rx) >= 1 /\ rx[1] = Delim /\ ~StopSeen
       /\ (Len(header) < HeaderLen \/ npay < dataLength))
        => (NewData = <<>> /\ NewChannel = <<>>)

(* C5: no call of get_stream ends by raising an exception.                 *)
C5_NeverRaises == pc # "raised"

(* C6: whenever the third collected header byte is the stop marker, the    *)
(* call returns 3 having read exactly 2 more raw bytes, no further header  *)
(* byte and no payload; it appends (second of those bytes - 1) to the      *)
(* channel list once and nothing to the data list.                         *)
C6_StopShortCircuit ==
    (pc # "ready" /\ StopSeen)
        => /\ Returned(3)
           /\ Len(header) = 3
           /\ npay = 0
           /\ Len(rx) = RawEnd(rx, 1, 3) + 2
           /\ NewChannel = <<rx[Len(rx)] - 1>>
           /\ NewData = <<>>

(* C7: every call whose first read finds the source empty returns 0 and    *)
(* leaves the data and channel lists as they were.                         *)
C7_IdempotentIdle ==
    [][(ncalls' = ncalls + 1 /\ rx' = <<>>)
          => (pc' = "returned" /\ ret' = 0 /\ data' = data /\ channel' = channel)]_vars

\* a call after a decoded frame found the source empty; both lists hold
\* what the frame left in them
C7_Witness ==
    /\ ncalls >= 2 /\ Returned(0) /\ rx = <<>>
    /\ Len(data) > 0 /\ Len(channel) > 0

(* C8: a call whose first byte is not the delimiter returns 2, reads no    *)
(* further byte, appends exactly that byte's value (0..255) to the data    *)
(* list and nothing to the channel list.                                   *)
C8_StrayByteVerbatim ==
    (pc # "ready" /\ Len(rx) >= 1 /\ rx[1] # Delim)
        => /\ Returned(2)
           /\ Len(rx) = 1
           /\ NewData = <<rx[1]>>
           /\ NewChannel = <<>>

(* C9: the channel list holds one element per call that returned 1 or 3;   *)
(* a call that ended otherwise has appended none.                          *)
C9_OneChannelPerFrame ==
    /\ Len(channel) = nframes
    /\ Ended => Len(channel) = c0 + (IF pc = "returned" /\ ret \in {1, 3} THEN 1 ELSE 0)

\* the second of two decoded frames carried two samples
C9_Witness ==
    /\ Returned(1) /\ nframes = 2 /\ Len(channel) = 2
    /\ npay = 4 /\ i = 4

(* C10: a call that has collected a whole frame and run its sample loop    *)
(* returns 1 and appends header[4]-1 to the channel list, whether or not   *)
(* the frame's checksum matches.                                           *)
C10_ChecksumAdvisory ==
    (Ended /\ Len(header) = HeaderLen /\ ~(i < dataLength))
        => /\ Returned(1)
           /\ NewChannel = <<header[5] - 1>>

\* a whole frame with a wrong checksum has been accepted
C10_Witness ==
    /\ Returned(1) /\ dataLength > 0 /\ npay = dataLength
    /\ ~check_stream_crc(header, Payload)
    /\ Len(NewData) = npay + npay \div 2

---------------------------------------------------------------------------
(* C11: for every byte string p, check_crc(crc(p) + p) returns p and       *)
(* raises nothing, also when the byte sum of p exceeds 65535.              *)
C11_ChecksumRoundTrip ==
    crc_pc = "done" => (crc_res.exc = "none" /\ crc_res.val = crc_arg)

(* C12: for every byte string p, crc(p) returns the two bytes, high byte   *)
(* first, of the byte sum of p modulo 65536; it does not fail.             *)
C12_CrcWraps ==
    crc_pc = "done"
        => /\ crc_sum.exc = "none"
           /\ crc_sum.val = <<(sum(crc_arg) % 65536) \div 256,
                              (sum(crc_arg) % 65536) % 256>>

---------------------------------------------------------------------------
(* Claims about send_command *)

\* the two-byte big-endian form of the byte sum of b, modulo 65536
BigEndianSum(b) == <<(sum(b) % 65536) \div 256, sum(b) % 256>>

\* the first two bytes of r are the checksum of the rest
ChecksumMatches(r) == SubSeq(r, 1, 2) = BigEndianSum(SubSeq(r, 3, Len(r)))

\* the call has ended after reading a response
Answered == s_pc = "done" /\ Len(s_log) = 2

\* the response has the expected length
FullLength == Len(s_ret) = ret_len(s_fmt)

\* the typed values of the field bytes, which follow the two checksum
\* bytes, the command echo and the declared length
FieldValues == unpack(s_fmt, SubSeq(s_ret, 5, Len(s_ret)))

\* C13: every send_command call ends in exactly one of three ways: it
\* returns the unpacked fields, it raises LengthError, or it raises
\* CRCError; nothing else comes out of it, whatever the command bytes and
\* whatever the device answers.
C13_ThreeOutcomes ==
    s_pc = "done" => s_out.exc \in {"none", "LengthError", "CRCError"}

\* C14: a response of exactly the expected length whose checksum is right
\* returns exactly the typed field values when its declared-length byte
\* equals expected_len - 4, and raises LengthError when it does not.
C14_DeclaredLength ==
    (Answered /\ FullLength /\ ChecksumMatches(s_ret)) =>
        IF s_ret[4] = ret_len(s_fmt) - 4
        THEN s_out = Value(FieldValues)
        ELSE s_out = Raised("LengthError")

\* a one-byte field was expected, the response declares 2, its checksum is
\* right, and LengthError came out
C14_Witness ==
    /\ Answered /\ FullLength /\ ChecksumMatches(s_ret)
    /\ s_fmt = <<"B">>
    /\ s_ret[4] = 2
    /\ s_out = Raised("LengthError")

\* C15: the checks come in a fixed order: a short response raises
\* LengthError whatever it holds; a full-length response whose checksum
\* does not match raises CRCError even when its declared length is wrong
\* too; only after both is the declared length compared.
C15_CheckOrder ==
    Answered =>
        IF ~FullLength THEN s_out = Raised("LengthError")
        ELSE IF ~ChecksumMatches(s_ret) THEN s_out = Raised("CRCError")
        ELSE (s_ret[4] # ret_len(s_fmt) - 4 => s_out = Raised("LengthError"))

\* a full-length response with both a wrong checksum and a wrong declared
\* length ended in CRCError
C15_Witness ==
    /\ Answered /\ FullLength
    /\ ~ChecksumMatches(s_ret)
    /\ s_ret[4] # ret_len(s_fmt) - 4
    /\ s_out = Raised("CRCError")

\* C18: every send_command call makes exactly one write on the transport,
\* of the packet crc(cmd) ++ cmd, followed by exactly one read of
\* expected_len bytes, and nothing more, whatever the outcome.
C18_OneWriteOneRead ==
    s_pc = "done" =>
        s_log = << SerCall("write", BigEndianSum(s_cmd) \o s_cmd, 0),
                   SerCall("read", <<>>, ret_len(s_fmt)) >>

---------------------------------------------------------------------------
(* Claims about the bytes get_stream decodes *)

\* C16: every sample a decoded frame appends is the signed 16-bit value of
\* a pair (hi, lo) of payload bytes, (hi << 8) | lo less 65536 when it is
\* 32768 or more, and the pairs used are the consecutive byte pairs of the
\* payload this call has read for the frame, in order.
C16_SamplesOfOwnPayload ==
    (Returned(1) /\ dataLength >= 0 /\ dataLength % 2 = 0)
        => NewSamples = FrameSamples(Payload)

\* The encoding the device applies to the bytes of a frame before sending
\* them: 0x7E and 0x7D go out as 0x7D followed by the byte XOR 0x20.
Xor20(b) == IF (b \div EscBit) % 2 = 1 THEN b - EscBit ELSE b + EscBit

RECURSIVE WireEscape(_)
WireEscape(b) ==
    IF b = <<>> THEN <<>>
    ELSE (IF b[1] \in {Delim, Escape} THEN <<Escape, Xor20(b[1])>> ELSE <<b[1]>>)
         \o WireEscape(Tail(b))

\* the call is accumulating, or has accumulated, a frame that is no stop frame
Accumulating == pc \in {"header", "payload", "decode"} \/ Returned(1)

\* C17: whatever logical bytes b the device escapes and sends after the
\* frame delimiter, the header and payload accumulation of get_stream
\* yields b again: the raw bytes the call has read are the escape encoding
\* of exactly the logical bytes it has accumulated, one logical byte for
\* each plain byte and for each escape marker with the byte after it.
C17_EscapeRoundTrip ==
    Accumulating => SubSeq(rx, 2, Len(rx)) = WireEscape(header \o Payload)

\* a frame with an escaped 0x7D in its header and an escaped 0x7E in its
\* payload has been accumulated and decoded
C17_Witness ==
    /\ Returned(1)
    /\ d0 = 0
    /\ \E k \in 1..Len(header) : header[k] = Escape
    /\ \E k \in 1..Len(Payload) : Payload[k] = Delim
    /\ Len(rx) = 1 + Len(header) + Len(Payload) + 2

---------------------------------------------------------------------------
\* C19: a call that has collected a complete 8-byte header whose length
\* byte header[3] is at most 4 reads no payload byte and appends no sample
\* to data; it ends by returning 1, having appended header[4]-1 to channel
\* once and nothing else.
C19_NoPayloadFrame ==
    (Len(header) = HeaderLen /\ header[4] <= 4) =>
        /\ npay = 0
        /\ RawEnd(rx, 1, HeaderLen) = Len(rx)
        /\ NewData = <<>>
        /\ pc # "raised"
        /\ NewChannel = IF Ended THEN <<header[5] - 1>> ELSE <<>>
        /\ Ended => Returned(1)

\* a frame announcing length 3 has been returned to a caller whose data
\* list was not empty
C19_Witness ==
    /\ Len(header) = HeaderLen
    /\ header[4] = 3
    /\ d0 > 0
    /\ Returned(1)
    /\ NewChannel = <<header[5] - 1>>

---------------------------------------------------------------------------
(* Claims about flush_stream *)

\* flush_stream is between frames, the last of which did not match its
\* checksum
FrameRejected ==
    /\ f_frames > 0
    /\ f_pc \in {"loop", "tail", "returned", "raised"}
    /\ Len(self_header) = HeaderLen
    /\ ~(Len(self_data) < self_dataLength)
    /\ ~check_stream_crc(self_header, self_data)

\* C20: flush_stream keeps the caller's data and channel lists in
\* lock-step. At every moment of a run both have grown by the same number
\* of elements; the channel ids a frame has added are header[4]-1, one for
\* each sample it has added; and a frame whose checksum does not match
\* adds nothing to either list.
C20_LockStep ==
    /\ Len(f_data) - f_d0 = Len(f_channel) - f_c0
    /\ SubSeq(f_channel, f_fc + 1, Len(f_channel))
         = [k \in 1..(Len(f_data) - f_fd) |-> self_header[5] - 1]
    /\ FrameRejected => (Len(f_data) = f_fd /\ Len(f_channel) = f_fc)

\* a run on a non-empty data list has returned after a frame of two
\* samples was accepted and a second frame was rejected
C20_Witness ==
    /\ f_pc = "returned"
    /\ f_d0 = 1
    /\ f_frames = 2
    /\ FrameRejected
    /\ Len(f_data) = f_d0 + 2
    /\ Len(f_channel) = f_c0 + 2

====
